---- MODULE Spec2Model ----
(***************************************************************************)
(* Model of the grocery price pipeline:                                    *)
(*   scripts/import_grocery_csv.py     the CSV Importer                    *)
(*   scripts/enrich_product_images.py  the Image Resolver                  *)
(*                                                                         *)
(* Text is a sequence of one-character strings, so that strip(), lower(),  *)
(* the price regular expression and the substring tests are computed and   *)
(* not assumed.  A nullable column or Python None is an option: <<>> is    *)
(* NULL / None and <<v>> is the value v.  A price is held in cents, a      *)
(* similarity score in 1/10000, a confidence in 1/1000000.                 *)
(***************************************************************************)
EXTENDS Integers, Sequences, FiniteSets, TLC

VARIABLES
  pc,          \* "idle" | "import" | "resolve" | "failed": where the process is
  stores,      \* the connection's view of table stores (id = index)
  products,    \* the connection's view of table products (id = index)
  purchases,   \* the connection's view of table purchases (id = index)
  committed,   \* the rows persisted in the database file
  fs,          \* the content of the price export (a sequence of CSV rows)
  run,         \* the locals of the running Importer main()
  last,        \* what the last committed Importer run printed and was given
  rs,          \* the locals of the running Resolver main()
  hist         \* per product id: how the Resolver settled it in this run

vars == <<pc, stores, products, purchases, committed, fs, run, last, rs, hist>>

(***************************************************************************)
(* Options and text                                                        *)
(***************************************************************************)
None == <<>>
Some(v) == <<v>>
IsNone(o) == o = <<>>
Val(o) == o[1]

IsSpace(c) == c \in {" ", "\t"}
IsDigit(c) == c \in {"0", "1", "2", "3", "4", "5", "6", "7", "8", "9"}
DigitVal(c) ==
  CASE c = "0" -> 0 [] c = "1" -> 1 [] c = "2" -> 2 [] c = "3" -> 3
    [] c = "4" -> 4 [] c = "5" -> 5 [] c = "6" -> 6 [] c = "7" -> 7
    [] c = "8" -> 8 [] c = "9" -> 9

\* str.lower()
LowerChar(c) ==
  CASE c = "A" -> "a" [] c = "B" -> "b" [] c = "C" -> "c" [] c = "D" -> "d"
    [] c = "E" -> "e" [] c = "F" -> "f" [] c = "G" -> "g" [] c = "H" -> "h"
    [] c = "I" -> "i" [] c = "J" -> "j" [] c = "K" -> "k" [] c = "L" -> "l"
    [] c = "M" -> "m" [] c = "N" -> "n" [] c = "O" -> "o" [] c = "P" -> "p"
    [] c = "Q" -> "q" [] c = "R" -> "r" [] c = "S" -> "s" [] c = "T" -> "t"
    [] c = "U" -> "u" [] c = "V" -> "v" [] c = "W" -> "w" [] c = "X" -> "x"
    [] c = "Y" -> "y" [] c = "Z" -> "z"
    [] OTHER -> c
Lower(s) == [i \in 1..Len(s) |-> LowerChar(s[i])]

RECURSIVE lstrip(_)
lstrip(s) == IF s = <<>> THEN s
             ELSE IF IsSpace(Head(s)) THEN lstrip(Tail(s)) ELSE s
RECURSIVE rstrip(_)
rstrip(s) == IF s = <<>> THEN s
             ELSE IF IsSpace(s[Len(s)]) THEN rstrip(SubSeq(s, 1, Len(s) - 1)) ELSE s
\* str.strip()
strip(s) == rstrip(lstrip(s))

\* needle in hay (Python's substring test)
Contains(hay, needle) ==
  \E i \in 1..(Len(hay) - Len(needle) + 1) :
     SubSeq(hay, i, i + Len(needle) - 1) = needle

\* a or b, on values that are None or a text: None and '' are falsy
Truthy(o) == ~IsNone(o) /\ Val(o) # <<>>
PyOr(a, b) == IF Truthy(a) THEN a ELSE b

(***************************************************************************)
(* import_grocery_csv.py: parse_price                                      *)
(***************************************************************************)
\* the number of characters of class digit (or space) starting at s[i]
RECURSIVE DigitsLen(_, _)
DigitsLen(s, i) == IF i <= Len(s) /\ IsDigit(s[i]) THEN 1 + DigitsLen(s, i + 1) ELSE 0
RECURSIVE SpaceLen(_, _)
SpaceLen(s, i) == IF i <= Len(s) /\ IsSpace(s[i]) THEN 1 + SpaceLen(s, i + 1) ELSE 0
\* the value of the n digits s[i], ..., s[i+n-1]
RECURSIVE IntOf(_, _, _)
IntOf(s, i, n) == IF n = 0 THEN 0
                  ELSE IntOf(s, i, n - 1) * 10 + DigitVal(s[i + n - 1])

\* \$\s*([0-9]+(?:\.[0-9]{1,2})?) matched at position i: None, or the cents of group 1
MatchPriceAt(s, i) ==
  IF s[i] # "$" THEN None
  ELSE LET j == i + 1 + SpaceLen(s, i + 1)
           n == DigitsLen(s, j)
           k == j + n
           d == IF k <= Len(s) /\ s[k] = "." THEN DigitsLen(s, k + 1) ELSE 0
           f == IF d > 2 THEN 2 ELSE d
           frac == IF f = 0 THEN 0
                   ELSE IF f = 1 THEN 10 * DigitVal(s[k + 1])
                   ELSE IntOf(s, k + 1, 2)
       IN IF n = 0 THEN None ELSE Some(IntOf(s, j, n) * 100 + frac)

\* re.search: the leftmost position where the pattern matches
RECURSIVE SearchPrice(_, _)
SearchPrice(s, i) ==
  IF i > Len(s) THEN None
  ELSE IF ~IsNone(MatchPriceAt(s, i)) THEN MatchPriceAt(s, i)
  ELSE SearchPrice(s, i + 1)

parse_price_AsZero(s) ==
  IF s = <<>> THEN Some(0)
  ELSE IF IsNone(SearchPrice(strip(s), 1)) THEN Some(0) ELSE SearchPrice(strip(s), 1)

parse_price(s) ==
  IF s = <<>> THEN None ELSE SearchPrice(strip(s), 1)


(***************************************************************************)
(* Bounds and inputs                                                       *)
(***************************************************************************)
MaxRows == 3      \* rows in the price export
MaxRuns == 2      \* program runs started

T_milk == <<"m", "i", "l", "k">>
T_kale == <<"k", "a", "l", "e">>
T_size == <<"1", " ", "l", "b">>
T_price == <<"$", " ", "3", ".", "9">>
T_est == <<"$", "3", ".", "9", "9", " ", "e", "s", "t">>
T_perlb == <<"$", "2", ".", "4", "9", "/", "L", "B">>
T_was == <<"$", "4", ".", "9", "9">>
T_na == <<"N", "/", "A">>
T_sale == <<"s", "a", "l", "e">>

\* one row of csv.DictReader: r.get(column) for the columns main() reads
Row(p, t, ta, pr, pa, n) ==
  [Producto |-> p, Tamano |-> t, TamanoAlt |-> ta,
   Precio |-> pr, PrecioActual |-> pa, Notas |-> n]

Rows ==
  { Row(Some(T_milk), Some(T_size), None, Some(T_est), None, Some(<<>>)),
    Row(Some(<<" ">> \o T_milk), None, Some(T_size), Some(T_price), None, None),
    Row(Some(T_kale), None, None, Some(T_na), None, Some(T_sale)),
    Row(Some(T_kale), Some(<<" ">>), None, None, Some(T_perlb), Some(T_was)),
    Row(Some(T_kale), None, None, Some(<<>>), None, Some(<<>>)),
    Row(Some(<<" ">>), Some(T_size), None, Some(T_est), None, None) }

RECURSIVE SeqsUpTo(_, _)
SeqsUpTo(S, n) ==
  IF n = 0 THEN {<<>>}
  ELSE LET shorter == SeqsUpTo(S, n - 1)
       IN shorter \cup {Append(q, x) : q \in {t \in shorter : Len(t) = n - 1}, x \in S}

CsvNames == {"a.csv", "b.csv"}     \* two copies of the export
MissingCsv == "missing.csv"        \* a path with no file behind it
StoreLabels == {<<"F">>, <<"f">>, <<"s">>}

(***************************************************************************)
(* import_grocery_csv.py: main, the fields of one row (lines 82-91)        *)
(***************************************************************************)
Markers == {<<"e", "s", "t">>, <<"/", "l", "b">>,
            <<"v", "a", "r", "i", "a", "b", "l", "e">>}

HasMarker(price_col) == \E x \in Markers : Contains(Lower(price_col), x)

DeriveNotes_ByParse(notes_col, price_col) ==
  IF IsNone(parse_price(notes_col)) THEN Some(notes_col)
  ELSE IF HasMarker(price_col) THEN Some(price_col) ELSE None

DeriveNotes(notes_col, price_col) ==
  IF notes_col # <<>> THEN Some(notes_col)
  ELSE IF HasMarker(price_col) THEN Some(price_col) ELSE None

RowFields(r) ==
  LET raw_name == strip(Val(PyOr(r.Producto, Some(<<>>))))
      sizeText == strip(Val(PyOr(PyOr(r.Tamano, r.TamanoAlt), Some(<<>>))))
      price_col == strip(Val(PyOr(PyOr(r.Precio, r.PrecioActual), Some(<<>>))))
      notes_col == strip(Val(PyOr(r.Notas, Some(<<>>))))
  IN [raw_name |-> raw_name,
      size |-> IF sizeText = <<>> THEN None ELSE Some(sizeText),
      price_col |-> price_col,
      cur_price |-> parse_price(price_col),
      notes_col |-> notes_col,
      orig_price |-> parse_price(notes_col),
      notes |-> DeriveNotes(notes_col, price_col)]

(***************************************************************************)
(* The tables (ensure_schema) and the statements main() runs on them       *)
(***************************************************************************)
IFNULL(x, d) == IF IsNone(x) THEN d ELSE Val(x)

\* INSERT OR IGNORE INTO stores(name): name is UNIQUE
InsertStore(st, name) ==
  IF \E i \in 1..Len(st) : st[i] = name THEN st ELSE Append(st, name)
StoreId(st, name) == CHOOSE i \in 1..Len(st) : st[i] = name

NewProduct(canonical, size) ==
  [canonical_name |-> canonical, size_text |-> size,
   image_url |-> None, image_source |-> None, image_confidence |-> None]

InsertProduct_NoUnique(ps, canonical, size) == Append(ps, NewProduct(canonical, size))

\* INSERT OR IGNORE INTO products(canonical_name, size_text): canonical_name is UNIQUE
InsertProduct(ps, canonical, size) ==
  IF \E i \in 1..Len(ps) : ps[i].canonical_name = canonical THEN ps
  ELSE Append(ps, NewProduct(canonical, size))
ProductId(ps, canonical) == CHOOSE i \in 1..Len(ps) : ps[i].canonical_name = canonical

\* the comparison written without IFNULL: in SQL NULL = NULL is not true
IsDuplicate_NullUnequal(pu, store_id, product_id, csv_name, f) ==
  \E i \in 1..Len(pu) :
     /\ pu[i].store_id = store_id
     /\ pu[i].product_id = product_id
     /\ pu[i].source_file = csv_name
     /\ pu[i].raw_product_name = f.raw_name
     /\ ~IsNone(f.cur_price) /\ pu[i].current_price = f.cur_price
     /\ ~IsNone(f.orig_price) /\ pu[i].original_price = f.orig_price
     /\ ~IsNone(f.size) /\ pu[i].size_text = f.size

\* SELECT 1 FROM purchases WHERE ... LIMIT 1 (lines 98-110)
IsDuplicate(pu, store_id, product_id, csv_name, f) ==
  \E i \in 1..Len(pu) :
     /\ pu[i].store_id = store_id
     /\ pu[i].product_id = product_id
     /\ pu[i].source_file = csv_name
     /\ pu[i].raw_product_name = f.raw_name
     /\ IFNULL(pu[i].current_price, -1) = IFNULL(f.cur_price, -1)
     /\ IFNULL(pu[i].original_price, -1) = IFNULL(f.orig_price, -1)
     /\ IFNULL(pu[i].size_text, <<>>) = IFNULL(f.size, <<>>)

\* INSERT INTO purchases (...) (lines 112-130); imported_at is the wall clock
\* and is left out, currency takes its default
NewPurchase(store_id, product_id, csv_name, f) ==
  [store_id |-> store_id, product_id |-> product_id, source_file |-> csv_name,
   raw_product_name |-> f.raw_name, current_price |-> f.cur_price,
   original_price |-> f.orig_price, notes |-> f.notes, size_text |-> f.size,
   currency |-> "USD"]

Db(st, ps, pu) == [stores |-> st, products |-> ps, purchases |-> pu]
Counts(db) == [stores |-> Len(db.stores), products |-> Len(db.products),
               purchases |-> Len(db.purchases)]

PersistedAfterRow_EachRow(persisted, view) == view

\* what the database file holds after one row of the loop: main() does not
\* commit inside the loop (lines 81-131), the one commit is line 133
PersistedAfterRow(persisted, view) == persisted

\* lines 82-131: the body of the loop on row r: the products and purchases
\* after it, and what it adds to the counter of inserted rows
RowStep(ps0, pu0, store_id, csv_name, r) ==
  LET f == RowFields(r)
      ps == InsertProduct(ps0, f.raw_name, f.size)
      product_id == ProductId(ps, f.raw_name)
  IN IF f.raw_name = <<>>
     THEN [products |-> ps0, purchases |-> pu0, inserted |-> 0]
     ELSE IF IsDuplicate(pu0, store_id, product_id, csv_name, f)
          THEN [products |-> ps, purchases |-> pu0, inserted |-> 0]
          ELSE [products |-> ps, inserted |-> 1,
                purchases |-> Append(pu0, NewPurchase(store_id, product_id, csv_name, f))]

\* lines 74-133: a whole run of main() on an empty database
RECURSIVE ImportRows(_, _, _, _, _)
ImportRows(ps, pu, csv_name, rows, i) ==
  IF i > Len(rows) THEN Db(<<<<"f">>>>, ps, pu)
  ELSE LET step == RowStep(ps, pu, 1, csv_name, rows[i])
       IN ImportRows(step.products, step.purchases, csv_name, rows, i + 1)

NoRun == [n |-> 0, csv_name |-> "", store |-> <<>>, store_id |-> 0, row |-> 0,
          inserted |-> 0, before |-> Db(<<>>, <<>>, <<>>)]
NoLast == [csv_name |-> "", store |-> <<>>, repeat |-> FALSE]
NoResolve == [n |-> 0, rows |-> <<>>, next |-> 0, stage |-> "", variant |-> 0,
              queries |-> 0, ncand |-> 0, best |-> None, trail |-> <<>>, updated |-> 0, skipped |-> 0]
NoHist == None

(***************************************************************************)
(* The Importer: one run of main()                                         *)
(***************************************************************************)
\* lines 66-80: connect, ensure_schema, the store row, the file opened
ImportBegin(path, label) ==
  /\ pc \in {"idle", "failed"}
  /\ run.n < MaxRuns
  /\ LET st == InsertStore(committed.stores, Lower(label))
     IN /\ stores' = st
        /\ products' = committed.products
        /\ purchases' = committed.purchases
        /\ run' = [n |-> run.n + 1, csv_name |-> path, store |-> Lower(label),
                   store_id |-> StoreId(st, Lower(label)), row |-> 1,
                   inserted |-> 0, before |-> committed]
  /\ pc' = "import"
  /\ UNCHANGED <<committed, fs, last, rs, hist>>

\* lines 66-79 when csv_path.open raises: the store row was inserted in the
\* open transaction, the exception leaves main() and nothing is committed
ImportMissing(label) ==
  /\ pc \in {"idle", "failed"}
  /\ run.n < MaxRuns
  /\ stores' = committed.stores
  /\ products' = committed.products
  /\ purchases' = committed.purchases
  /\ StoreId(InsertStore(committed.stores, Lower(label)), Lower(label)) > 0
  /\ run' = [NoRun EXCEPT !.n = run.n + 1, !.before = committed]
  /\ pc' = "failed"
  /\ UNCHANGED <<committed, fs, last, rs, hist>>

\* lines 81-131: one iteration of the loop over the reader
ImportRow ==
  /\ pc = "import"
  /\ run.row <= Len(fs)
  /\ LET step == RowStep(products, purchases, run.store_id, run.csv_name, fs[run.row])
     IN /\ products' = step.products
        /\ purchases' = step.purchases
        /\ run' = [run EXCEPT !.row = @ + 1, !.inserted = @ + step.inserted]
  /\ committed' = PersistedAfterRow(committed, Db(stores, products', purchases'))
  /\ UNCHANGED <<pc, stores, fs, last, rs, hist>>

\* an I/O or decode error while the reader is iterated (line 81): the exception
\* leaves main(), the connection is dropped with its transaction open
ImportReadFail ==
  /\ pc = "import"
  /\ run.row <= Len(fs)
  /\ pc' = "failed"
  /\ stores' = committed.stores
  /\ products' = committed.products
  /\ purchases' = committed.purchases
  /\ run' = [NoRun EXCEPT !.n = run.n, !.before = run.before,
                          !.inserted = run.inserted]
  /\ UNCHANGED <<committed, fs, last, rs, hist>>

\* lines 133-143: the commit after the last row, and the totals printed
ImportCommit ==
  /\ pc = "import"
  /\ run.row > Len(fs)
  /\ committed' = Db(stores, products, purchases)
  /\ last' = [csv_name |-> run.csv_name, store |-> run.store,
              repeat |-> (last.csv_name = run.csv_name /\ last.store = run.store)]
  /\ run' = [NoRun EXCEPT !.n = run.n]
  /\ pc' = "idle"
  /\ UNCHANGED <<stores, products, purchases, fs, rs, hist>>

InitImport ==
  /\ pc = "idle"
  /\ stores = <<>> /\ products = <<>> /\ purchases = <<>>
  /\ committed = Db(<<>>, <<>>, <<>>)
  /\ fs \in SeqsUpTo(Rows, MaxRows)
  /\ run = NoRun
  /\ last = NoLast
  /\ rs = NoResolve
  /\ hist = NoHist

NextImport ==
  \/ \E path \in CsvNames, label \in StoreLabels : ImportBegin(path, label)
  \/ \E label \in StoreLabels : ImportMissing(label)
  \/ ImportRow
  \/ ImportReadFail
  \/ ImportCommit

SpecImport == InitImport /\ [][NextImport]_vars


(***************************************************************************)
(* Properties of the Importer                                              *)
(***************************************************************************)
\* C1: a committed Importer run given the same file and the same store as the
\* committed Importer run before it inserts no row: the run's counter of inserted
\* rows is 0 and the stores, products and purchases it commits are the rows that
\* were persisted when it started.
C1_ReimportAddsNothing ==
  [][(ImportCommit /\ last'.repeat) =>
       /\ run.inserted = 0
       /\ Counts(committed') = Counts(committed)
       /\ committed' = committed]_vars

\* the second of two imports of a file with rows has committed
C1_Witness ==
  /\ pc = "idle"
  /\ last.repeat
  /\ Len(committed.purchases) > 0
  /\ Len(committed.stores) > 0

SamePurchaseKey(a, b) ==
  /\ a.store_id = b.store_id
  /\ a.product_id = b.product_id
  /\ a.source_file = b.source_file
  /\ a.raw_product_name = b.raw_product_name
  /\ a.current_price = b.current_price
  /\ a.original_price = b.original_price
  /\ a.size_text = b.size_text

NoDuplicateRows(db) ==
  /\ \A i, j \in 1..Len(db.purchases) :
        i # j => ~SamePurchaseKey(db.purchases[i], db.purchases[j])
  /\ \A i, j \in 1..Len(db.products) :
        i # j => db.products[i].canonical_name # db.products[j].canonical_name

\* a file of three rows, one an exact repeat of another, over two distinct names
RepeatFile ==
  /\ Len(fs) = 3
  /\ \E i, j \in 1..3 : i < j /\ fs[i] = fs[j]
  /\ \A i \in 1..3 : RowFields(fs[i]).raw_name # <<>>
  /\ Cardinality({RowFields(fs[i]).raw_name : i \in 1..3}) = 2

\* C4: in the connection's view and in the persisted rows alike, no two purchases
\* agree on store, product, source file, raw name, current price, original price
\* and size text (NULL equal to NULL), and no two products share a canonical
\* name; the first import of a three-row file with one exact repeat over two
\* names ends with 2 products and 2 purchases.
C4_NoDuplicates ==
  /\ NoDuplicateRows(Db(stores, products, purchases))
  /\ NoDuplicateRows(committed)
  /\ (RepeatFile /\ pc = "import" /\ run.n = 1 /\ run.row > Len(fs))
        => (Len(products) = 2 /\ Len(purchases) = 2 /\ run.inserted = 2)

\* the three-row file with a repeat has been read to its end by a first import
C4_Witness ==
  /\ RepeatFile
  /\ pc = "import" /\ run.n = 1 /\ run.row > Len(fs)
  /\ \E i \in 1..3 : IsNone(RowFields(fs[i]).cur_price)

\* the purchase a step of the loop inserted, if it inserted one
Inserted(pu, pu2) == IF Len(pu2) > Len(pu) THEN Some(pu2[Len(pu2)]) ELSE None

\* C5 as amended: for every row imported, the note is the notes column's text
\* when that column is not empty, whether or not it holds a price; when it is
\* empty the note is the price field's text if that field holds est, /lb or
\* variable, and NULL if not.  A price field "$3.99 est" with an empty notes
\* column gives price 3.99 and note "$3.99 est"; two empty fields give a NULL
\* price and a NULL note.
C5_NotesDerivation ==
  [][ImportRow =>
       LET f == RowFields(fs[run.row])
           new == Inserted(purchases, purchases')
       IN ~IsNone(new) =>
            /\ f.notes_col # <<>> => Val(new).notes = Some(f.notes_col)
            /\ (f.notes_col = <<>> /\ HasMarker(f.price_col))
                 => Val(new).notes = Some(f.price_col)
            /\ (f.notes_col = <<>> /\ ~HasMarker(f.price_col))
                 => Val(new).notes = None
            /\ (f.price_col = T_est /\ f.notes_col = <<>>)
                 => (Val(new).current_price = Some(399) /\ Val(new).notes = Some(T_est))
            /\ (f.price_col = <<>> /\ f.notes_col = <<>>)
                 => (Val(new).current_price = None /\ Val(new).notes = None)]_vars

\* C5 as stated: a notes column that is not empty and holds no price is the note;
\* a notes column that holds a price gives way to the price field's text when
\* that field holds a marker.
C5_Original ==
  [][ImportRow =>
       LET f == RowFields(fs[run.row])
           new == Inserted(purchases, purchases')
       IN ~IsNone(new) =>
            /\ (f.notes_col # <<>> /\ IsNone(f.orig_price))
                 => Val(new).notes = Some(f.notes_col)
            /\ (~IsNone(f.orig_price) /\ HasMarker(f.price_col))
                 => Val(new).notes = Some(f.price_col)]_vars

\* purchases are stored from a row whose notes column holds a price and whose
\* price field holds a marker, and from a row with an empty notes column
C5_Witness ==
  /\ \E i \in 1..Len(purchases) :
        /\ ~IsNone(purchases[i].original_price)
        /\ purchases[i].notes = Some(T_was)
  /\ \E i \in 1..Len(purchases) : purchases[i].notes = Some(T_est)
  /\ \E i \in 1..Len(purchases) : purchases[i].notes = None

\* a text holds "$", then white space or nothing, then a digit
HasPricePattern(s) ==
  \E i, j \in 1..Len(s) :
     /\ i < j
     /\ s[i] = "$"
     /\ IsDigit(s[j])
     /\ \A k \in (i + 1)..(j - 1) : IsSpace(s[k])

\* C7: a step of the loop on a row whose price field holds no price leaves the
\* run in the loop at the next row with a purchase of that row's store, file and
\* name stored with a NULL current price; a step on a row with an empty name
\* changes no table and leaves the run in the loop at the next row; and the
\* commit is taken with every row of the file read.
C7_RowErrorsDoNotAbort ==
  [][/\ ImportRow =>
          LET f == RowFields(fs[run.row])
          IN /\ pc' = "import" /\ run'.row = run.row + 1
             /\ (f.raw_name # <<>> /\ ~HasPricePattern(f.price_col)) =>
                  \E i \in 1..Len(purchases') :
                     /\ purchases'[i].raw_product_name = f.raw_name
                     /\ purchases'[i].store_id = run.store_id
                     /\ purchases'[i].source_file = run.csv_name
                     /\ purchases'[i].current_price = None
             /\ f.raw_name = <<>> =>
                  (products' = products /\ purchases' = purchases /\ stores' = stores)
     /\ ImportCommit => run.row = Len(fs) + 1]_vars

\* a run has committed a file in which a row with an empty name and a row with
\* an unparseable price each come before another row
C7_Witness ==
  /\ pc = "idle"
  /\ last.csv_name # ""
  /\ \E i, j \in 1..Len(fs) :
        /\ i < j /\ j < Len(fs)
        /\ RowFields(fs[i]).raw_name = <<>>
        /\ RowFields(fs[j]).raw_name # <<>>
        /\ ~HasPricePattern(RowFields(fs[j]).price_col)
        /\ RowFields(fs[Len(fs)]).raw_name # RowFields(fs[j]).raw_name
        /\ \E p \in 1..Len(committed.purchases) :
              committed.purchases[p].raw_product_name = RowFields(fs[Len(fs)]).raw_name
        /\ \E p \in 1..Len(committed.purchases) :
              /\ committed.purchases[p].raw_product_name = RowFields(fs[j]).raw_name
              /\ committed.purchases[p].current_price = None

\* C8: the persisted rows change only at the commit after the last row, where
\* they become the stores, products and purchases of the connection all at once;
\* a run that ends in a fatal error leaves persisted exactly the rows that were
\* persisted when it started.
C8_NoPartialCommit ==
  [][/\ committed' # committed =>
          /\ pc = "import" /\ run.row > Len(fs) /\ pc' = "idle"
          /\ committed' = Db(stores, products, purchases)
     /\ pc' = "failed" => committed' = run'.before
     /\ pc' = "import" => committed' = run'.before]_vars

\* a run failed after it had inserted rows
C8_Witness ==
  /\ pc = "failed"
  /\ run.inserted > 0
  /\ committed = run.before


(***************************************************************************)
(* enrich_product_images.py: normalize_name                                *)
(*                                                                         *)
(* The three non-ASCII characters the function names are written "REG"     *)
(* (the registered sign), "TM" (the trade mark sign) and "RSQUO" (the      *)
(* right single quotation mark).                                           *)
(***************************************************************************)
Letters == {"a", "b", "c", "d", "e", "f", "g", "h", "i", "j", "k", "l", "m",
            "n", "o", "p", "q", "r", "s", "t", "u", "v", "w", "x", "y", "z"}
IsLetter(c) == c \in Letters
\* \w, on lower-cased text
IsWordChar(c) == IsLetter(c) \/ IsDigit(c) \/ c = "_"
\* \b between s[i-1] and s[i]
Boundary(s, i) ==
  LET before == i > 1 /\ i - 1 <= Len(s) /\ IsWordChar(s[i - 1])
      after == i >= 1 /\ i <= Len(s) /\ IsWordChar(s[i])
  IN before # after

\* line 26: the marks become a space, the typographic apostrophe a plain one
ReplaceMarks(s) ==
  [i \in 1..Len(s) |->
     IF s[i] \in {"REG", "TM"} THEN " " ELSE IF s[i] = "RSQUO" THEN "'" ELSE s[i]]

\* the first position >= i that holds ")", or 0
RECURSIVE CloseParen(_, _)
CloseParen(s, i) ==
  IF i > Len(s) THEN 0 ELSE IF s[i] = ")" THEN i ELSE CloseParen(s, i + 1)

\* line 27: re.sub(r"\([^)]*\)", " ", s), scanning from position i
RECURSIVE SubParens(_, _)
SubParens(s, i) ==
  IF i > Len(s) THEN <<>>
  ELSE IF s[i] = "(" /\ CloseParen(s, i + 1) # 0
       THEN <<" ">> \o SubParens(s, CloseParen(s, i + 1) + 1)
       ELSE <<s[i]>> \o SubParens(s, i + 1)

\* the words w1\s*w2\s*...: the position after them when they start at s[i], or 0
RECURSIVE MatchParts(_, _, _)
MatchParts(s, i, ws) ==
  IF ws = <<>> THEN i
  ELSE LET w == Head(ws)
           e == i + Len(w)
       IN IF e - 1 <= Len(s) /\ SubSeq(s, i, e - 1) = w
          THEN IF Tail(ws) = <<>> THEN e
               ELSE MatchParts(s, e + SpaceLen(s, e), Tail(ws))
          ELSE 0

\* (w|w|...)\b at s[i]: the position after the first alternative, in the
\* order written, that matches with a word boundary after it, or 0
RECURSIVE MatchAlt(_, _, _)
MatchAlt(s, i, alts) ==
  IF alts = <<>> THEN 0
  ELSE LET e == MatchParts(s, i, Head(alts))
       IN IF e # 0 /\ Boundary(s, e) THEN e ELSE MatchAlt(s, i, Tail(alts))

\* line 28: (oz|fl\s*oz|lb|ct|ea|each|g|kg|ml|l|gal|pt)
Units == <<<<<<"o", "z">>>>, <<<<"f", "l">>, <<"o", "z">>>>, <<<<"l", "b">>>>,
           <<<<"c", "t">>>>, <<<<"e", "a">>>>, <<<<"e", "a", "c", "h">>>>,
           <<<<"g">>>>, <<<<"k", "g">>>>, <<<<"m", "l">>>>, <<<<"l">>>>,
           <<<<"g", "a", "l">>>>, <<<<"p", "t">>>>>>

\* line 29: (organic|fresh|family\s*size|...|no\s*salt)
StopWords == <<<<<<"o", "r", "g", "a", "n", "i", "c">>>>,
               <<<<"f", "r", "e", "s", "h">>>>,
               <<<<"f", "a", "m", "i", "l", "y">>, <<"s", "i", "z", "e">>>>,
               <<<<"l", "a", "r", "g", "e">>>>,
               <<<<"s", "m", "a", "l", "l">>>>, <<<<"m", "i", "n", "i">>>>,
               <<<<"o", "r", "i", "g", "i", "n", "a", "l">>>>,
               <<<<"s", "i", "n", "g", "l", "e">>>>,
               <<<<"i", "n", "d", "i", "v", "i", "d", "u", "a", "l">>>>,
               <<<<"b", "a", "g">>>>, <<<<"p", "a", "c", "k">>>>,
               <<<<"v", "p">>>>, <<<<"n", "o">>, <<"s", "a", "l", "t">>>>>>

\* line 28: \b\d+(?:[\.,]\d+)?\s*(units)\b at s[i]: the position after the
\* match, or 0.  The fraction is tried first, then the number without it.
MatchUnitAt(s, i) ==
  IF ~(IsDigit(s[i]) /\ Boundary(s, i)) THEN 0
  ELSE LET k == i + DigitsLen(s, i)
           hasFrac == /\ k <= Len(s) /\ s[k] \in {".", ","}
                      /\ DigitsLen(s, k + 1) > 0
           k2 == k + 1 + DigitsLen(s, k + 1)
           withFrac == IF hasFrac THEN MatchAlt(s, k2 + SpaceLen(s, k2), Units) ELSE 0
       IN IF withFrac # 0 THEN withFrac
          ELSE MatchAlt(s, k + SpaceLen(s, k), Units)

RECURSIVE SubUnits(_, _)
SubUnits(s, i) ==
  IF i > Len(s) THEN <<>>
  ELSE IF MatchUnitAt(s, i) # 0
       THEN <<" ">> \o SubUnits(s, MatchUnitAt(s, i))
       ELSE <<s[i]>> \o SubUnits(s, i + 1)

\* line 29: \b(stop words)\b at s[i]
MatchStopAt(s, i) == IF Boundary(s, i) THEN MatchAlt(s, i, StopWords) ELSE 0

RECURSIVE SubStops(_, _)
SubStops(s, i) ==
  IF i > Len(s) THEN <<>>
  ELSE IF MatchStopAt(s, i) # 0
       THEN <<" ">> \o SubStops(s, MatchStopAt(s, i))
       ELSE <<s[i]>> \o SubStops(s, i + 1)

\* line 30: what is not in [a-z0-9\s\-'] becomes a space
KeepChars(s) ==
  [i \in 1..Len(s) |->
     IF IsLetter(s[i]) \/ IsDigit(s[i]) \/ IsSpace(s[i]) \/ s[i] \in {"-", "'"}
     THEN s[i] ELSE " "]

\* line 31: runs of white space become one space
RECURSIVE Collapse(_)
Collapse(s) ==
  IF s = <<>> THEN <<>>
  ELSE IF IsSpace(Head(s))
       THEN <<" ">> \o Collapse(SubSeq(s, 1 + SpaceLen(s, 1), Len(s)))
       ELSE <<Head(s)>> \o Collapse(Tail(s))

normalize_name(name) ==
  strip(Collapse(KeepChars(SubStops(SubUnits(SubParens(ReplaceMarks(Lower(name)), 1),
                                             1), 1))))

\* str.split(): the words between runs of white space
RECURSIVE Split(_)
Split(s) ==
  LET t == lstrip(s)
      n == CHOOSE k \in 0..Len(t) :
             /\ \A j \in 1..k : ~IsSpace(t[j])
             /\ (k = Len(t) \/ IsSpace(t[k + 1]))
  IN IF t = <<>> THEN <<>>
     ELSE <<SubSeq(t, 1, n)>> \o Split(SubSeq(t, n + 1, Len(t)))

\* ' '.join(words)
RECURSIVE Join(_)
Join(ws) ==
  IF ws = <<>> THEN <<>>
  ELSE IF Len(ws) = 1 THEN ws[1]
  ELSE ws[1] \o <<" ">> \o Join(Tail(ws))

\* lines 36-42 and 75-81: the texts searched for one product
Variants(product_name) ==
  LET n == normalize_name(product_name)
      tokens == Split(n)
  IN <<product_name>>
       \o (IF n # <<>> /\ n # product_name THEN <<n>> ELSE <<>>)
       \o (IF Len(tokens) > 4 THEN <<Join(SubSeq(tokens, 1, 4))>> ELSE <<>>)

(***************************************************************************)
(* enrich_product_images.py: GENERIC_KEYWORD_IMAGES, generic_fallback_image *)
(***************************************************************************)
Img(k, file) == [keyword |-> k, url |-> file]

\* lines 137-180, in the order written; the url is its path under
\* https://upload.wikimedia.org/wikipedia/commons/
GENERIC_KEYWORD_IMAGES == <<
  Img(<<"b", "a", "n", "a", "n", "a">>,
      "8/8a/Banana-Single.jpg"),
  Img(<<"a", "p", "p", "l", "e">>,
      "1/15/Red_Apple.jpg"),
  Img(<<"t", "o", "m", "a", "t", "o">>,
      "8/89/Tomato_je.jpg"),
  Img(<<"o", "n", "i", "o", "n">>,
      "2/25/Onion_on_White.JPG"),
  Img(<<"p", "o", "t", "a", "t", "o">>,
      "6/60/Patates.jpg"),
  Img(<<"c", "u", "c", "u", "m", "b", "e", "r">>,
      "9/96/ARS_cucumber.jpg"),
  Img(<<"b", "e", "l", "l", " ", "p", "e", "p", "p", "e", "r">>,
      "8/85/Assorted_peppers.jpg"),
  Img(<<"p", "e", "p", "p", "e", "r">>,
      "8/85/Assorted_peppers.jpg"),
  Img(<<"s", "t", "r", "a", "w", "b", "e", "r", "r", "y">>,
      "2/29/PerfectStrawberry.jpg"),
  Img(<<"b", "l", "u", "e", "b", "e", "r", "r", "i", "e", "s">>,
      "1/13/Blueberries.jpg"),
  Img(<<"b", "l", "u", "e", "b", "e", "r", "r", "y">>,
      "1/13/Blueberries.jpg"),
  Img(<<"a", "v", "o", "c", "a", "d", "o">>,
      "c/c9/Avocado_Hass_-_single_and_halved.jpg"),
  Img(<<"l", "e", "m", "o", "n">>,
      "c/c6/Lemon-Whole-Split.jpg"),
  Img(<<"o", "r", "a", "n", "g", "e">>,
      "c/c4/Orange-Fruit-Pieces.jpg"),
  Img(<<"c", "i", "l", "a", "n", "t", "r", "o">>,
      "2/2f/Coriandrum_sativum_-_K%C3%B6hler%E2%80%93s_Medizinal-Pflanzen-193.jpg"),
  Img(<<"p", "a", "r", "s", "l", "e", "y">>,
      "0/0f/Petroselinum_crispum2.jpg"),
  Img(<<"c", "a", "r", "r", "o", "t">>,
      "7/70/Carrot_on_White.JPG"),
  Img(<<"e", "g", "g", "p", "l", "a", "n", "t">>,
      "f/fb/Aubergine.jpg"),
  Img(<<"s", "q", "u", "a", "s", "h">>,
      "5/59/Cucurbita_moschata_Butternut_20051011_203.jpg"),
  Img(<<"c", "h", "a", "y", "o", "t", "e">>,
      "f/f1/Chayote_BNC.jpg"),
  Img(<<"g", "r", "a", "p", "e", "s">>,
      "b/bb/Table_grapes_on_white.jpg"),
  Img(<<"m", "a", "n", "g", "o">>,
      "9/90/Hapus_Mango.jpg"),
  Img(<<"c", "o", "r", "n">>,
      "7/72/Maize_stalk.jpg"),
  Img(<<"m", "i", "l", "k">>,
      "a/a4/Milk_glass.jpg"),
  Img(<<"b", "r", "e", "a", "d">>,
      "d/d1/Loaf_of_bread.jpg"),
  Img(<<"c", "h", "e", "e", "s", "e">>,
      "4/44/Cheese_platter.jpg"),
  Img(<<"y", "o", "g", "u", "r", "t">>,
      "3/37/Yogurt.jpg"),
  Img(<<"b", "u", "t", "t", "e", "r">>,
      "0/0e/Butter_on_spoon.jpg"),
  Img(<<"r", "i", "c", "e">>,
      "6/6f/Rice_grains_%28IRRI%29.jpg"),
  Img(<<"p", "a", "s", "t", "a">>,
      "4/4f/Fusilli_pasta.jpg"),
  Img(<<"t", "o", "r", "t", "i", "l", "l", "a">>,
      "2/2c/Flour_tortillas.jpg"),
  Img(<<"b", "e", "a", "n", "s">>,
      "5/5f/Black_beans.jpg"),
  Img(<<"s", "h", "r", "i", "m", "p">>,
      "8/82/Shrimps.jpg"),
  Img(<<"t", "u", "n", "a">>,
      "d/d7/Thunnus_albacares.jpg"),
  Img(<<"c", "h", "i", "c", "k", "e", "n">>,
      "3/32/Chicken_breast.png"),
  Img(<<"b", "e", "e", "f">>,
      "9/91/Raw_beef.png"),
  Img(<<"p", "o", "r", "k">>,
      "0/01/Pork_meat.jpg"),
  Img(<<"h", "o", "n", "e", "y">>,
      "5/52/Honey_%28food%29.jpg"),
  Img(<<"v", "i", "n", "e", "g", "a", "r">>,
      "0/06/White_vinegar.jpg"),
  Img(<<"k", "o", "m", "b", "u", "c", "h", "a">>,
      "3/3e/Kombucha_Mature.jpg"),
  Img(<<"s", "a", "l", "t">>,
      "5/5d/Salt_shaker_on_white_background.jpg"),
  Img(<<"s", "u", "g", "a", "r">>,
      "7/70/Sugar_cubes.jpg") >>

\* the index of the first entry from i on whose keyword is in n, or 0
RECURSIVE FirstKeyword(_, _)
FirstKeyword(n, i) ==
  IF i > Len(GENERIC_KEYWORD_IMAGES) THEN 0
  ELSE IF Contains(n, GENERIC_KEYWORD_IMAGES[i].keyword) THEN i
  ELSE FirstKeyword(n, i + 1)

generic_fallback_image_RawName(product_name) ==
  LET i == FirstKeyword(Lower(product_name), 1)
  IN IF i = 0 THEN None
     ELSE Some([url |-> GENERIC_KEYWORD_IMAGES[i].url,
                matched |-> GENERIC_KEYWORD_IMAGES[i].keyword, conf |-> 350000])

\* lines 183-188: None, or (url, keyword, 0.35)
generic_fallback_image(product_name) ==
  LET i == FirstKeyword(normalize_name(product_name), 1)
  IN IF i = 0 THEN None
     ELSE Some([url |-> GENERIC_KEYWORD_IMAGES[i].url,
                matched |-> GENERIC_KEYWORD_IMAGES[i].keyword, conf |-> 350000])


(***************************************************************************)
(* enrich_product_images.py: main                                          *)
(*                                                                         *)
(* A catalog answers a query with a list of candidates.  A candidate is    *)
(* [named, image, score]: whether it carries a name (title), whether it    *)
(* carries an image, and the similarity the code computes for it (for      *)
(* catalogs A and B the greater of the two similarities of lines 62-65).   *)
(* The image URL of a candidate is written [cat, score, path] with an      *)
(* empty path, that of a fallback entry with cat "generic" and its path.   *)
(***************************************************************************)
MaxCands == 1     \* candidates in one catalog answer

ThresholdA == 4200      \* line 217: 0.42
ThresholdB == 3300      \* line 223: 0.33
ThresholdC == 4500      \* line 229: 0.45
OtherScore == (2 * 10000) \div 3      \* a similarity of 2/3

Threshold(stage) ==
  CASE stage = "A" -> ThresholdA [] stage = "B" -> ThresholdB [] stage = "C" -> ThresholdC

SourceTag(stage) ==
  CASE stage = "A" -> "openfoodfacts" [] stage = "B" -> "openverse"
    [] stage = "C" -> "wikipedia"

Scores(stage) == {Threshold(stage) - 1, Threshold(stage), OtherScore}
Candidates(stage) ==
  [named : BOOLEAN, image : BOOLEAN, score : Scores(stage)]

Url(cat, score, path) == [cat |-> cat, score |-> score, path |-> path]
EmptyUrl == Url("", 0, "")

Min(a, b) == IF a <= b THEN a ELSE b

Confidence_SameForAll(stage, score) == Min(950000, 550000 + 40 * score)

\* lines 220, 226, 232 before round(): min(cap, base + slope * score)
Confidence(stage, score) ==
  CASE stage = "A" -> Min(950000, 550000 + 40 * score)
    [] stage = "B" -> Min(820000, 380000 + 35 * score)
    [] stage = "C" -> Min(850000, 450000 + 35 * score)

\* round(x, 3): the nearest multiple of 0.001; where x lies half way the
\* binary floating-point value of the expression decides, so both are possible
Round3(x) ==
  LET lo == (x \div 1000) * 1000
      r == x % 1000
  IN IF r < 500 THEN {lo} ELSE IF r > 500 THEN {lo + 1000} ELSE {lo, lo + 1000}

\* lines 58-69, 95-106, 125-133: best after one candidate of the answer
BetterOf(stage, best, c) ==
  LET score == IF stage = "C" /\ ~c.named THEN 0 ELSE c.score
      skip == IF stage = "C" THEN ~c.image ELSE (~c.named \/ ~c.image)
      best_score == IF IsNone(best) THEN 0 ELSE Val(best).score
  IN IF ~skip /\ score > best_score
     THEN Some([url |-> Url(SourceTag(stage), score, ""), score |-> score])
     ELSE best

Accepts_Strict(stage, best) == ~IsNone(best) /\ Val(best).score > Threshold(stage)

\* lines 217, 223, 229: hit and hit[2] >= threshold
Accepts(stage, best) == ~IsNone(best) /\ Val(best).score >= Threshold(stage)

\* the queries one stage sends: lines 46, 85 (one per variant) and 119 (one)
Queries(stage, product_name) ==
  IF stage = "C" THEN 1 ELSE Len(Variants(product_name))

SelectMissing_All(ps, limit) ==
  LET ids == [i \in 1..Len(ps) |-> i]
  IN IF limit > 0 /\ limit < Len(ids) THEN SubSeq(ids, 1, limit) ELSE ids

\* lines 201-205: ids of the products WHERE image_url IS NULL OR image_url='',
\* ORDER BY id, LIMIT limit when limit > 0
SelectMissing(ps, limit) ==
  LET missing == {i \in 1..Len(ps) :
                    IsNone(ps[i].image_url) \/ Val(ps[i].image_url) = EmptyUrl}
      RECURSIVE Ordered(_)
      Ordered(i) == IF i > Len(ps) THEN <<>>
                    ELSE (IF i \in missing THEN <<i>> ELSE <<>>) \o Ordered(i + 1)
      ids == Ordered(1)
  IN IF limit > 0 /\ limit < Len(ids) THEN SubSeq(ids, 1, limit) ELSE ids

\* lines 240-243: UPDATE products SET image_url, image_source, image_confidence
UpdateImage(ps, pid, url, source, conf) ==
  [ps EXCEPT ![pid] = [@ EXCEPT !.image_url = Some(url), !.image_source = Some(source),
                                !.image_confidence = Some(conf)]]

Limits == {0, 1}

\* the products of an export read by the Importer, for the Resolver to work on
N_bananas == <<"O", "r", "g", "a", "n", "i", "c", " ", "B", "a", "n", "a", "n", "a", "s", " ", "(", "F", "a", "m", "i", "l", "y", " ", "S", "i", "z", "e", ")", " ", "2", " ", "l", "b">>
N_chips == <<"C", "h", "i", "p", "s", " ", "(", "b", "a", "n", "a", "n", "a", ")">>
N_smoothie == <<"M", "a", "n", "g", "o", " ", "B", "a", "n", "a", "n", "a", " ", "S", "m", "o", "o", "t", "h", "i", "e", " ", "M", "i", "x", " ", "B", "o", "t", "t", "l", "e", " ", "1", "2", " ", "o", "z">>
NameRow(name) == Row(Some(name), None, None, Some(T_price), None, None)
Exports == { <<NameRow(N_bananas), NameRow(T_kale)>>,
             <<NameRow(N_chips), NameRow(N_smoothie)>> }

\* lines 211-212: the queries of catalog A for row i of the rows selected
FirstQueries(ps, rows, i) ==
  IF i <= Len(rows) THEN Queries("A", ps[rows[i]].canonical_name) ELSE 0

\* lines 198-209: connect, select the products without an image
ResolveBegin(limit) ==
  /\ pc \in {"idle", "failed"}
  /\ rs.n < MaxRuns
  /\ stores' = committed.stores
  /\ products' = committed.products
  /\ purchases' = committed.purchases
  /\ LET rows == SelectMissing(committed.products, limit)
     IN rs' = [NoResolve EXCEPT !.n = rs.n + 1, !.rows = rows,
                                !.next = 1, !.stage = "A", !.variant = 1,
                                !.queries = FirstQueries(committed.products, rows, 1)]
  /\ hist' = NoHist
  /\ pc' = "resolve"
  /\ UNCHANGED <<committed, fs, run, last>>

Working == pc = "resolve" /\ rs.next <= Len(rs.rows)

\* one pass of the loops at lines 58, 95 and 125: the next candidate of the answer
Candidate ==
  /\ Working
  /\ rs.ncand < MaxCands
  /\ \E c \in Candidates(rs.stage) :
        rs' = [rs EXCEPT !.ncand = @ + 1, !.best = BetterOf(rs.stage, rs.best, c)]
  /\ UNCHANGED <<pc, stores, products, purchases, committed, fs, run, last, hist>>

\* the product settled: the counters, the trail kept for the record, the next row
Settled(trail, source, updated, skipped) ==
  /\ rs' = [rs EXCEPT !.next = @ + 1, !.stage = "A", !.variant = 1, !.ncand = 0,
                      !.queries = FirstQueries(products, rs.rows, rs.next + 1),
                      !.best = None, !.trail = <<>>,
                      !.updated = @ + updated, !.skipped = @ + skipped]
  /\ hist' = Some([pid |-> rs.rows[rs.next], trail |-> trail, source |-> source])

\* the end of one answer (lines 69, 106, 133); after the last query of a stage,
\* lines 217-247: accept, or go to the next source, or fall back, or skip
AnswerDone ==
  LET pid == rs.rows[rs.next]
      name == products[pid].canonical_name
      trail == Append(rs.trail, [stage |-> rs.stage,
                                 best |-> IF IsNone(rs.best) THEN None
                                          ELSE Some(Val(rs.best).score)])
      gh == generic_fallback_image(name)
      nextStage == IF rs.stage = "A" THEN "B" ELSE "C"
  IN IF rs.variant < rs.queries
     THEN /\ rs' = [rs EXCEPT !.variant = @ + 1, !.ncand = 0]
          /\ UNCHANGED <<products, hist>>
     ELSE IF Accepts(rs.stage, rs.best)
     THEN /\ \E conf \in Round3(Confidence(rs.stage, Val(rs.best).score)) :
               products' = UpdateImage(products, pid, Val(rs.best).url,
                                       SourceTag(rs.stage), conf)
          /\ Settled(trail, Some(SourceTag(rs.stage)), 1, 0)
     ELSE IF rs.stage # "C"
     THEN /\ rs' = [rs EXCEPT !.stage = nextStage, !.variant = 1, !.ncand = 0,
                              !.queries = Queries(nextStage, name),
                              !.best = None, !.trail = trail]
          /\ UNCHANGED <<products, hist>>
     ELSE IF ~IsNone(gh)
     THEN /\ products' = UpdateImage(products, pid, Url("generic", 0, Val(gh).url),
                                     "generic", Val(gh).conf)
          /\ Settled(trail, Some("generic"), 1, 0)
     ELSE /\ products' = products
          /\ Settled(trail, None, 0, 1)

\* the catalog answered and the list of its candidates is at its end
EndOfAnswer ==
  /\ Working
  /\ AnswerDone
  /\ UNCHANGED <<pc, stores, purchases, committed, fs, run, last>>

\* http_json raised (no network, a timeout, a body that is not JSON): lines
\* 54-55 and 93-94 go on to the next variant, lines 120-121 return None
QueryFailed ==
  /\ Working
  /\ rs.ncand = 0
  /\ AnswerDone
  /\ UNCHANGED <<pc, stores, purchases, committed, fs, run, last>>

\* http_json returned JSON of another shape than expected (a list for the
\* object, null for the list, a number for a name): lines 56-66, 95-97 and
\* 122-127 raise outside the try, the exception leaves main() before line 251
QueryMalformed ==
  /\ Working
  /\ pc' = "failed"
  /\ stores' = committed.stores
  /\ products' = committed.products
  /\ purchases' = committed.purchases
  /\ rs' = [NoResolve EXCEPT !.n = rs.n]
  /\ UNCHANGED <<committed, fs, run, last, hist>>

\* lines 251-264: the one commit, the totals printed
ResolveCommit ==
  /\ pc = "resolve"
  /\ rs.next > Len(rs.rows)
  /\ committed' = Db(stores, products, purchases)
  /\ pc' = "idle"
  /\ UNCHANGED <<stores, products, purchases, fs, run, last, rs, hist>>

InitResolve ==
  /\ pc = "idle"
  /\ fs \in Exports
  /\ committed = ImportRows(<<>>, <<>>, "a.csv", fs, 1)
  /\ stores = committed.stores
  /\ products = committed.products
  /\ purchases = committed.purchases
  /\ run = NoRun
  /\ last = NoLast
  /\ rs = NoResolve
  /\ hist = NoHist

NextResolve ==
  \/ \E limit \in Limits : ResolveBegin(limit)
  \/ Candidate
  \/ EndOfAnswer
  \/ QueryFailed
  \/ QueryMalformed
  \/ ResolveCommit

SpecResolve == InitResolve /\ [][NextResolve]_vars


(***************************************************************************)
(* Properties of the Resolver                                              *)
(***************************************************************************)
HasImage(p) == ~IsNone(p.image_url) /\ Val(p.image_url) # EmptyUrl
ImageFields(p) == <<p.image_url, p.image_source, p.image_confidence>>

\* C2: a product whose persisted image_url is not empty keeps its image_url,
\* image_source and image_confidence, persisted and in the view of a running
\* Resolver, through every step of every run; a step of a run changes only a
\* product the run selected, and that product was persisted with no image.
C2_NonOverwrite ==
  [][/\ \A pid \in 1..Len(committed.products) :
          HasImage(committed.products[pid]) =>
            /\ ImageFields(committed'.products[pid]) = ImageFields(committed.products[pid])
            /\ ImageFields(products'[pid]) = ImageFields(committed.products[pid])
     /\ \A pid \in 1..Len(products) :
          (pc' = "resolve" /\ products'[pid] # products[pid]) =>
            /\ \E i \in 1..Len(rs.rows) : rs.rows[i] = pid
            /\ ~HasImage(committed.products[pid])]_vars

\* a second run has settled a product while another product holds the image a
\* run before it had committed
C2_Witness ==
  /\ pc = "resolve"
  /\ rs.n = 2
  /\ rs.next > 1
  /\ \E pid \in 1..Len(products) :
        /\ HasImage(committed.products[pid])
        /\ \A i \in 1..Len(rs.rows) : rs.rows[i] # pid
  /\ \E pid \in 1..Len(products) :
        ~HasImage(committed.products[pid]) /\ HasImage(products[pid])

\* the result of one source is accepted: a best candidate of score >= 0.42 for
\* catalog A, >= 0.33 for catalog B, >= 0.45 for catalog C
Accepted(e) ==
  /\ ~IsNone(e.best)
  /\ Val(e.best) >= (CASE e.stage = "A" -> 4200 [] e.stage = "B" -> 3300
                       [] e.stage = "C" -> 4500)

InChainOrder(trail) ==
  /\ Len(trail) <= 3
  /\ \A i \in 1..Len(trail) : trail[i].stage = <<"A", "B", "C">>[i]
  /\ \A i \in 1..(Len(trail) - 1) : ~Accepted(trail[i])

\* C3: the sources a product was settled with are A, then B, then C, each
\* consulted only when all before it were not accepted; the image_source
\* recorded is that of the first accepted one, and is generic or none only
\* after all three were consulted and not accepted.
C3_FirstSuccessInOrder ==
  /\ (pc = "resolve" /\ rs.next <= Len(rs.rows)) =>
        /\ InChainOrder(rs.trail)
        /\ \A i \in 1..Len(rs.trail) : ~Accepted(rs.trail[i])
        /\ rs.stage = <<"A", "B", "C">>[Len(rs.trail) + 1]
  /\ ~IsNone(hist) =>
        LET h == Val(hist)
            n == Len(h.trail)
        IN /\ n >= 1
           /\ InChainOrder(h.trail)
           /\ Accepted(h.trail[n]) =>
                h.source = Some(CASE h.trail[n].stage = "A" -> "openfoodfacts"
                                  [] h.trail[n].stage = "B" -> "openverse"
                                  [] h.trail[n].stage = "C" -> "wikipedia")
           /\ ~Accepted(h.trail[n]) => (n = 3 /\ h.source \in {Some("generic"), None})
           /\ pc = "resolve" => products[h.pid].image_source = h.source

\* catalog C was accepted after A and B each answered a candidate just under
\* its threshold
C3_Witness ==
  /\ pc = "resolve"
  /\ ~IsNone(hist)
  /\ Val(hist).source = Some("wikipedia")
  /\ Val(hist).trail[1].best = Some(4199)
  /\ Val(hist).trail[2].best = Some(3299)
  /\ Val(hist).trail[3].best = Some(4500)

\* C6: whatever goes wrong with one catalog query, the run stays in its loop
\* and loses nothing it has written.
C6_LookupFailuresRecovered ==
  [][(pc = "resolve" /\ rs.next <= Len(rs.rows)) =>
        (pc' = "resolve" /\ \A pid \in 1..Len(products) :
                               HasImage(products[pid]) => HasImage(products'[pid]))]_vars

ExactConfidence(source, score) ==
  CASE source = "openfoodfacts" -> Min(950000, 550000 + 40 * score)
    [] source = "openverse" -> Min(820000, 380000 + 35 * score)
    [] source = "wikipedia" -> Min(850000, 450000 + 35 * score)
    [] source = "generic" -> 350000

Cap(source) ==
  CASE source = "openfoodfacts" -> 950000 [] source = "openverse" -> 820000
    [] source = "wikipedia" -> 850000 [] source = "generic" -> 350000

Distance(a, b) == IF a >= b THEN a - b ELSE b - a

WithSource(ps) == {i \in 1..Len(ps) : ~IsNone(ps[i].image_source)}

ConfidenceRounded(ps) ==
  /\ \A i \in WithSource(ps) :
        LET source == Val(ps[i].image_source)
            conf == Val(ps[i].image_confidence)
            url == Val(ps[i].image_url)
        IN /\ url.cat = source
           /\ conf % 1000 = 0
           /\ Distance(conf, ExactConfidence(source, url.score)) <= 500
           /\ source = "generic" => conf = 350000
           /\ conf <= Cap(source)
           /\ 0 <= conf /\ conf <= 1000000
  /\ \A i, j \in WithSource(ps) :
        (/\ ps[i].image_source = ps[j].image_source
         /\ Val(ps[i].image_url).score < Val(ps[j].image_url).score)
          => Val(ps[i].image_confidence) <= Val(ps[j].image_confidence)

\* C9 as amended: the stored confidence is the source's value min(cap, base +
\* slope * s) rounded to three decimals (a multiple of 0.001 within 0.0005 of
\* it), exactly 0.35 for the fallback table; it does not decrease when s grows,
\* does not exceed the source's cap and lies in [0, 1].
C9_ConfidenceBySource ==
  ConfidenceRounded(products) /\ ConfidenceRounded(committed.products)

\* C9 as stated: the stored confidence is min(cap, base + slope * s) itself.
C9_Original ==
  \A i \in WithSource(products) :
     Val(products[i].image_confidence) =
       ExactConfidence(Val(products[i].image_source), Val(products[i].image_url).score)

\* two products hold images of one catalog accepted at different scores
C9_Witness ==
  \E i, j \in WithSource(committed.products) :
     /\ committed.products[i].image_source = committed.products[j].image_source
     /\ Val(committed.products[i].image_url).score
          < Val(committed.products[j].image_url).score
     /\ Val(committed.products[i].image_confidence)
          < Val(committed.products[j].image_confidence)
     /\ Val(committed.products[j].image_confidence) % 1000 = 0
     /\ ExactConfidence(Val(committed.products[j].image_source),
                        Val(committed.products[j].image_url).score) % 1000 # 0

KeywordHits(n) ==
  {i \in 1..Len(GENERIC_KEYWORD_IMAGES) : Contains(n, GENERIC_KEYWORD_IMAGES[i].keyword)}

\* C10: a step that settles a product after catalogs A, B and C were consulted
\* and none accepted gives it, when a fallback keyword occurs in its normalized
\* name, the image of the first such keyword in table order with source generic
\* and confidence 0.35 (the banana image when "banana" occurs) and counts it as
\* updated; when none occurs it leaves the product as it was, with no image
\* field set, and counts it as skipped.
C10_FallbackOrSkip ==
  [][(/\ pc = "resolve" /\ pc' = "resolve"
      /\ rs'.next = rs.next + 1
      /\ ~IsNone(hist')
      /\ Len(Val(hist').trail) = 3
      /\ \A i \in 1..3 : ~Accepted(Val(hist').trail[i])) =>
        LET pid == rs.rows[rs.next]
            n == normalize_name(products[pid].canonical_name)
            hits == KeywordHits(n)
            first == CHOOSE i \in hits : \A j \in hits : i <= j
            after == products'[pid]
        IN IF hits # {}
           THEN /\ after.image_url = Some(Url("generic", 0, GENERIC_KEYWORD_IMAGES[first].url))
                /\ after.image_source = Some("generic")
                /\ after.image_confidence = Some(350000)
                /\ Contains(n, <<"b", "a", "n", "a", "n", "a">>) =>
                     Val(after.image_url).path = "8/8a/Banana-Single.jpg"
                /\ rs'.updated = rs.updated + 1 /\ rs'.skipped = rs.skipped
           ELSE /\ after = products[pid]
                /\ ImageFields(after) = <<None, None, None>>
                /\ rs'.skipped = rs.skipped + 1 /\ rs'.updated = rs.updated]_vars

\* one run gave a product the banana image from the table and skipped another
C10_Witness ==
  /\ pc = "resolve"
  /\ rs.updated = 1 /\ rs.skipped = 1
  /\ \E pid \in 1..Len(products) :
        /\ products[pid].image_source = Some("generic")
        /\ Val(products[pid].image_url).path = "8/8a/Banana-Single.jpg"
        /\ products[pid].image_confidence = Some(350000)
  /\ \E pid \in 1..Len(products) :
        /\ ImageFields(products[pid]) = <<None, None, None>>
        /\ \E i \in 1..Len(rs.rows) : i < rs.next /\ rs.rows[i] = pid

====
